---- MODULE Spec2Model ----
(***************************************************************************)
(* Model of pokedex_app.py: the two cached data functions                  *)
(* (fetch_pokemon_data, load_pokemon_for_analysis) and the dashboard       *)
(* script that calls them on every run.                                    *)
(*                                                                         *)
(* Python strings are sequences of one-character strings, so that          *)
(* str(), lower(), capitalize() and replace() are computed, not assumed.   *)
(***************************************************************************)
EXTENDS Integers, Sequences, FiniteSets, TLC

VARIABLES
    entityCache,   \* st.cache_data store of fetch_pokemon_data: argument -> return value
    loadCache,     \* st.cache_data store of load_pokemon_for_analysis: limit -> DataFrame
    session,       \* st.session_state.current_pokemon_id
    pc,            \* position of the running script
    df_pokemon,    \* the script's df_pokemon
    results,       \* load_pokemon_for_analysis: the listing being iterated
    loadIdx,       \* load_pokemon_for_analysis: index of the next listed entry
    rows,          \* load_pokemon_for_analysis: all_pokemon_data
    loadReqs,      \* network requests issued by the running load call, by kind
    loadCold,      \* whether the running load call started with both caches empty
    calls,         \* the fetch_pokemon_data calls made by the last step
    outcome,       \* what the last step showed or raised
    history        \* identifier -> what fetch_pokemon_data returned for it first

vars == <<entityCache, loadCache, session, pc, df_pokemon, results, loadIdx,
          rows, loadReqs, loadCold, calls, outcome, history>>

----------------------------------------------------------------------------
(* Bounds of the model. *)

\* Number of entities the remote listing knows (stands for the 151 asked for).
NumListed == 7

\* The entities the remote service knows are the ones it lists.
NumEntities == NumListed

----------------------------------------------------------------------------
(* Python str operations. *)

LowerChars == <<"a", "b", "c", "d", "e", "f", "g", "h", "i", "j">>
UpperChars == <<"A", "B", "C", "D", "E", "F", "G", "H", "I", "J">>
DigitChars == <<"0", "1", "2", "3", "4", "5", "6", "7", "8", "9">>

Range(table) == {table[i] : i \in 1..Len(table)}

\* The character at the place of c in the other table.
ToLower == [c \in Range(UpperChars) |->
               LowerChars[CHOOSE i \in 1..Len(UpperChars) : UpperChars[i] = c]]
ToUpper == [c \in Range(LowerChars) |->
               UpperChars[CHOOSE i \in 1..Len(LowerChars) : LowerChars[i] = c]]

\* A character without a lower or upper case form (a digit, a blank) is kept.
LowerChar(c) == IF c \in DOMAIN ToLower THEN ToLower[c] ELSE c

UpperChar(c) == IF c \in DOMAIN ToUpper THEN ToUpper[c] ELSE c

\* A caller that forgets .lower().
LowerForgotten(s) == s

\* str.lower()
Lower(s) == [i \in 1..Len(s) |-> LowerChar(s[i])]

\* str.capitalize(): first character upper-cased, the rest lower-cased
Capitalize(s) ==
    [i \in 1..Len(s) |-> IF i = 1 THEN UpperChar(s[i]) ELSE LowerChar(s[i])]

\* str.replace(old, new) for one-character old and new
Replace(s, old, new) == [i \in 1..Len(s) |-> IF s[i] = old THEN new ELSE s[i]]

RECURSIVE Digits(_)
\* str(n) of a non-negative integer
Digits(n) ==
    IF n < 10 THEN <<DigitChars[n + 1]>>
    ELSE Append(Digits(n \div 10), DigitChars[(n % 10) + 1])

\* An identifier is a Python int or a Python str.
IntId(n) == [t |-> "int", v |-> n]
StrId(s) == [t |-> "str", v |-> s]

\* str(identifier)
Str(identifier) == IF identifier.t = "int" THEN Digits(identifier.v) ELSE identifier.v

\* str(identifier).lower(): the path segment of the primary request (line 29)
PathOf(identifier) == Lower(Str(identifier))

----------------------------------------------------------------------------
(* The remote service: what a request can be answered with. *)

StatKeys == {"hp", "attack", "defense", "special-attack", "special-defense", "speed"}

StatOrder == <<"hp", "attack", "defense", "special-attack", "special-defense", "speed">>

Name(e) == <<LowerChars[e], LowerChars[(e % Len(LowerChars)) + 1]>>

TypesOf(e) ==
    IF e % 2 = 0
    THEN <<[type |-> [name |-> "fire"]], [type |-> [name |-> "flying"]]>>
    ELSE <<[type |-> [name |-> "grass"]]>>

StatsOf(e) ==
    LET all == [i \in 1..Len(StatOrder) |->
                   [stat |-> [name |-> StatOrder[i]], base_stat |-> 40 + e]]
    IN \* every fifth entity is sent without its last stat, "speed"
       IF e % 5 = 0 THEN SubSeq(all, 1, Len(all) - 1) ELSE all

\* JSON of GET /pokemon/{name or id} for entity e
Full(e) ==
    [id |-> e, name |-> Name(e), species |-> [url |-> e], sprites |-> e,
     types |-> TypesOf(e), stats |-> StatsOf(e), height |-> e + 3, weight |-> 10 * e]

Entry(lang, text) == [language |-> [name |-> lang], flavor_text |-> text]

SpanishText == <<"h", "\n", "o", "\f", "l", "\r", "a">>

FlavorOf(e) ==
    IF e % 3 = 0
    THEN <<Entry("en", <<"x">>)>>
    ELSE <<Entry("en", <<"x">>), Entry("es", SpanishText), Entry("es", <<"z">>)>>

\* JSON of GET species.url for entity e
Species(e) == [id |-> e, flavor_text_entries |-> FlavorOf(e)]

\* a JSON object without one of its keys
Drop(obj, key) == [k \in (DOMAIN obj) \ {key} |-> obj[k]]

\* a JSON object with one key's value replaced
With(obj, key, val) == [k \in DOMAIN obj |-> IF k = key THEN val ELSE obj[k]]

\* The entity a path segment addresses (by name or by number), 0 when none.
Resolve(path) ==
    IF \E e \in 1..NumEntities : path = Name(e) \/ path = Digits(e)
    THEN CHOOSE e \in 1..NumEntities : path = Name(e) \/ path = Digits(e)
    ELSE 0

\* How a request can fail: requests.get raises, raise_for_status raises,
\* response.json() raises; each a requests.exceptions.RequestException.
RequestFailures == {"transport", "status", "badjson"}

\* The answers to the two requests of one fetch: how each request ends
\* ("ok", a failure, or "unsent") and the shape of the JSON an ok one carries.
Answer(prim, shape, spec, species_shape) ==
    [prim |-> prim, shape |-> shape, spec |-> spec, species_shape |-> species_shape]

NoAnswer == Answer("unsent", "none", "unsent", "none")

\* JSON of the primary request for entity e in each shape the service may send.
Payload(e, shape) ==
    CASE shape = "full" -> Full(e)
      [] shape = "no species" -> Drop(Full(e), "species")
      [] shape = "no weight" -> Drop(Full(e), "weight")
      [] shape = "no types" -> With(Full(e), "types", << >>)
      [] shape = "short stats" -> With(Full(e), "stats", SubSeq(StatsOf(e), 1, 5))

\* JSON of the species request for entity e in each shape.
SpeciesPayload(e, shape) ==
    CASE shape = "full" -> Species(e)
      [] shape = "no entries" -> Drop(Species(e), "flavor_text_entries")
      [] shape = "english only" ->
            With(Species(e), "flavor_text_entries", <<Entry("en", <<"x">>)>>)
      [] shape = "empty text" ->
            With(Species(e), "flavor_text_entries",
                 <<Entry("es", << >>), Entry("es", <<"z">>)>>)

\* The primary request fails, or it succeeds with a payload and the species
\* request fails or succeeds.
AnswersWith(shapes, speciesShapes) ==
    {Answer(f, "none", "unsent", "none") : f \in RequestFailures}
    \cup {Answer("ok", d, f, "none") : d \in shapes, f \in RequestFailures}
    \cup {Answer("ok", d, "ok", s) : d \in shapes, s \in speciesShapes}

\* An unknown path is refused, or the service is not reached.
Unknown == {Answer(f, "none", "unsent", "none") : f \in {"transport", "status"}}

\* The service's answers for a path: its record of the entity, whole or with a
\* field missing.
ServiceAnswers(path) ==
    IF Resolve(path) = 0 THEN Unknown
    ELSE AnswersWith({"full", "no species"}, {"full", "no entries"})

\* Any answer: every failure and every payload shape.
AnyAnswers(path) ==
    IF Resolve(path) = 0 THEN Unknown
    ELSE AnswersWith({"full"}, {"full", "no entries", "english only", "empty text"})
         \cup AnswersWith({"full", "no species", "no weight", "no types", "short stats"},
                          {"full"})

----------------------------------------------------------------------------
(* fetch_pokemon_data *)

None == [tag |-> "None"]

\* "Descripción no disponible."
Fallback ==
    <<"D", "e", "s", "c", "r", "i", "p", "c", "i", "ó", "n", " ", "n", "o", " ",
      "d", "i", "s", "p", "o", "n", "i", "b", "l", "e", ".">>

\* The locale whose flavor text is shown.
TargetLocale == "es"

RECURSIVE FirstMatch(_, _)
\* next(generator, default) over the entries from index i on: the index of the
\* first entry of the target locale, 0 when the generator is exhausted
FirstMatch(entries, i) ==
    IF i > Len(entries) THEN 0
    ELSE IF entries[i].language.name = TargetLocale THEN i
    ELSE FirstMatch(entries, i + 1)

\* lines 39-43 without the second replace: form feeds stay.
DescriptionKeepsFormFeed(species_data) ==
    LET entries == species_data.flavor_text_entries
        i == FirstMatch(entries, 1)
    IN IF i = 0 THEN Fallback ELSE Replace(entries[i].flavor_text, "\n", " ")

\* lines 39-43
Description(species_data) ==
    LET entries == species_data.flavor_text_entries
        i == FirstMatch(entries, 1)
    IN IF i = 0 THEN Fallback
       ELSE Replace(Replace(entries[i].flavor_text, "\n", " "), "\f", " ")

\* {s['stat']['name']: s['base_stat'] for s in data['stats']}: a later entry of
\* the same name overwrites an earlier one
StatsDict(stats) ==
    LET last(k) == CHOOSE i \in 1..Len(stats) :
                       /\ stats[i].stat.name = k
                       /\ \A j \in (i + 1)..Len(stats) : stats[j].stat.name # k
    IN [k \in {stats[i].stat.name : i \in 1..Len(stats)} |-> stats[last(k)].base_stat]

\* x / 10.0, kept exact
Div10(x) == [num |-> x, den |-> 10]

\* lines 45-52 with the six canonical stats defaulted to 0 in the record.
BuildRecordDefaulting(data, description) ==
    [tag |-> "Record",
     id |-> data.id, name |-> Capitalize(data.name),
     image |-> data.sprites,
     types |-> [i \in 1..Len(data.types) |-> data.types[i].type.name],
     stats |-> [k \in StatKeys \cup DOMAIN StatsDict(data.stats) |->
                  IF k \in DOMAIN StatsDict(data.stats) THEN StatsDict(data.stats)[k] ELSE 0],
     height |-> Div10(data.height), weight |-> Div10(data.weight),
     description |-> description]

\* lines 45-52
BuildRecord(data, description) ==
    [tag |-> "Record",
     id |-> data.id, name |-> Capitalize(data.name),
     image |-> data.sprites,
     types |-> [i \in 1..Len(data.types) |-> data.types[i].type.name],
     stats |-> StatsDict(data.stats),
     height |-> Div10(data.height), weight |-> Div10(data.weight),
     description |-> description]

RecordFields == {"id", "name", "sprites", "types", "stats", "height", "weight"}

Returned(result, reqs) == [result |-> result, raised |-> "none", reqs |-> reqs]
Raised(exc, reqs) == [result |-> None, raised |-> exc, reqs |-> reqs]

\* The body without lines 34-37: the description is never asked for.
FetchBodyOneRequest(identifier, ans) ==
    LET first == <<[req |-> "pokemon", path |-> PathOf(identifier)]>>
        data == Payload(Resolve(PathOf(identifier)), ans.shape)
    IN IF ans.prim \in RequestFailures THEN Returned(None, first)
       ELSE IF ~(RecordFields \subseteq DOMAIN data) THEN Raised("KeyError", first)
       ELSE Returned(BuildRecord(data, Fallback), first)

\* The body of fetch_pokemon_data (lines 28-54) run against the answers the
\* service gives to its requests: what it returns or raises, and the requests
\* it issued.
FetchBody(identifier, ans) ==
    LET first == <<[req |-> "pokemon", path |-> PathOf(identifier)]>>
        data == Payload(Resolve(PathOf(identifier)), ans.shape)
    IN IF ans.prim \in RequestFailures THEN Returned(None, first)
       ELSE IF "species" \notin DOMAIN data THEN Raised("KeyError", first)
       ELSE LET species_url == data.species.url
                both == Append(first, [req |-> "species", path |-> Digits(species_url)])
                species_data == SpeciesPayload(species_url, ans.species_shape)
            IN IF ans.spec \in RequestFailures THEN Returned(None, both)
               ELSE IF "flavor_text_entries" \notin DOMAIN species_data
                    THEN Raised("KeyError", both)
               ELSE IF ~(RecordFields \subseteq DOMAIN data)
                    THEN Raised("KeyError", both)
               ELSE Returned(BuildRecord(data, Description(species_data)), both)

\* A cache keyed by the lower-cased string form of the argument.
CacheKeyLowered(identifier) == StrId(PathOf(identifier))

\* st.cache_data hashes the argument by type and value: the argument as passed
\* is the key.
CacheKey(identifier) == identifier

Put(cache, key, value) ==
    [k \in (DOMAIN cache) \cup {key} |-> IF k = key THEN value ELSE cache[k]]

EmptyCache == [k \in {} |-> None]

\* A wrapper that stores records only: a None is computed again.
CachedFetchSkipNone(cache, identifier, ans) ==
    IF CacheKey(identifier) \in DOMAIN cache
    THEN [cache |-> cache, call |-> Returned(cache[CacheKey(identifier)], <<>>)]
    ELSE LET b == FetchBody(identifier, ans)
         IN [cache |-> IF b.raised = "none" /\ b.result # None
                       THEN Put(cache, CacheKey(identifier), b.result)
                       ELSE cache,
             call |-> b]

\* The decorated fetch_pokemon_data (line 25): a stored return value is handed
\* back without running the body; a returned value (None included) is stored,
\* a raised exception is not.
CachedFetch(cache, identifier, ans) ==
    IF CacheKey(identifier) \in DOMAIN cache
    THEN [cache |-> cache, call |-> Returned(cache[CacheKey(identifier)], <<>>)]
    ELSE LET b == FetchBody(identifier, ans)
         IN [cache |-> IF b.raised = "none"
                       THEN Put(cache, CacheKey(identifier), b.result)
                       ELSE cache,
             call |-> b]

\* The service answers only a call that reaches it: a call served from the
\* cache issues no request.
Asked(cache, identifier, answers) ==
    IF CacheKey(identifier) \in DOMAIN cache THEN {NoAnswer} ELSE answers

\* if data: / if pokemon: a record is a non-empty dict, None is false
Truthy(result) == result # None

----------------------------------------------------------------------------
(* What a step leaves for inspection. *)

NoCall == [tag |-> "NoCall"]

\* One call of fetch_pokemon_data: its argument, the answers the service gave
\* to the requests it issued, what it returned or raised, what the first
\* call with this argument had returned (NoCall when there was none), and the
\* arguments of earlier calls that have the same lower-cased string form.
Observe(identifier, ans, call) ==
    [identifier |-> identifier,
     ans |-> IF call.reqs = <<>> THEN NoAnswer
             ELSE IF Len(call.reqs) = 1
                  THEN Answer(ans.prim, ans.shape, "unsent", "none")
                  ELSE ans,
     result |-> call.result, raised |-> call.raised, reqs |-> call.reqs,
     prior |-> IF identifier \in DOMAIN history THEN history[identifier] ELSE NoCall,
     samePath |-> {k \in DOMAIN history : PathOf(k) = PathOf(identifier)}]

Remember(hist, identifier, call) ==
    IF call.raised = "none" /\ identifier \notin DOMAIN hist
    THEN Put(hist, identifier, call.result)
    ELSE hist

Outcome(at, raised, shown) == [at |-> at, raised |-> raised, shown |-> shown]

----------------------------------------------------------------------------
(* load_pokemon_for_analysis *)

\* load_pokemon_for_analysis(151), line 82
Limit == 151

Min(a, b) == IF a < b THEN a ELSE b

\* response.json()['results'] of GET /pokemon?limit={limit}
Listing(limit) == [i \in 1..Min(limit, NumListed) |-> [name |-> Name(i)]]

\* Python None in a column of strings
NoneValue == "None"

\* dict.get(key, default)
Get(dict, key, default) == IF key \in DOMAIN dict THEN dict[key] ELSE default

\* lines 68-75; data['types'][0] raises IndexError on an empty list
FlatData(data) ==
    ("ID" :> data.id) @@ ("Nombre" :> data.name)
    @@ ("Tipo Primario" :> data.types[1])
    @@ ("Tipo Secundario" :> IF Len(data.types) > 1 THEN data.types[2] ELSE NoneValue)
    @@ ("HP" :> Get(data.stats, "hp", 0))
    @@ ("Ataque" :> Get(data.stats, "attack", 0))
    @@ ("Defensa" :> Get(data.stats, "defense", 0))
    @@ ("At. Especial" :> Get(data.stats, "special-attack", 0))
    @@ ("Def. Especial" :> Get(data.stats, "special-defense", 0))
    @@ ("Velocidad" :> Get(data.stats, "speed", 0))
    @@ ("Altura (m)" :> data.height) @@ ("Peso (kg)" :> data.weight)

\* pd.DataFrame(list of dicts): the columns are the keys of the dicts, so an
\* empty list gives a frame with no columns
DataFrame(data) ==
    [columns |-> UNION {DOMAIN data[i] : i \in 1..Len(data)}, rows |-> data]

NoFrame == DataFrame(<<>>)

ListingRequest(limit) == [req |-> "list", path |-> Digits(limit)]

NoRequests == [list |-> 0, pokemon |-> 0, species |-> 0]

\* The requests counted so far and those of the sequence reqs, by kind.
Count(counted, reqs) ==
    LET n(kind) == Cardinality({i \in 1..Len(reqs) : reqs[i].req = kind})
    IN [list |-> counted.list + n("list"),
        pokemon |-> counted.pokemon + n("pokemon"),
        species |-> counted.species + n("species")]

\* Lines 57-63 and 77, and the st.cache_data wrapper of line 56: a stored frame
\* is handed back; otherwise the listing request is issued. requests.get may
\* raise, a non-ok response skips the loop and returns the empty frame,
\* response.json() or ['results'] may raise, and an ok listing starts the loop.
LoadCall ==
    /\ pc = "load"
    /\ calls' = <<>>
    /\ UNCHANGED <<entityCache, session, history>>
    /\ IF Limit \in DOMAIN loadCache
       THEN /\ df_pokemon' = loadCache[Limit]
            /\ pc' = "tab1"
            /\ outcome' = Outcome("load", "none", "cached")
            /\ UNCHANGED <<loadCache, results, loadIdx, rows, loadReqs, loadCold>>
       ELSE /\ loadCold' = (entityCache = EmptyCache /\ loadCache = EmptyCache)
            /\ rows' = <<>>
            /\ \E kind \in {"ok", "status", "transport", "badjson", "nofield"} :
                 CASE kind = "ok" ->
                        /\ results' = Listing(Limit)
                        /\ loadIdx' = 1
                        /\ pc' = "loading"
                        /\ outcome' = Outcome("load", "none", "listed")
                        /\ loadReqs' = Count(NoRequests, <<ListingRequest(Limit)>>)
                        /\ UNCHANGED <<loadCache, df_pokemon>>
                   [] kind = "status" ->
                        /\ loadCache' = Put(loadCache, Limit, DataFrame(<<>>))
                        /\ df_pokemon' = DataFrame(<<>>)
                        /\ pc' = "tab1"
                        /\ outcome' = Outcome("load", "none", "listing refused")
                        /\ loadReqs' = Count(NoRequests, <<ListingRequest(Limit)>>)
                        /\ UNCHANGED <<results, loadIdx>>
                   [] OTHER ->
                        /\ pc' = "failed"
                        /\ outcome' =
                             CASE kind = "transport" ->
                                    Outcome("load", "ConnectionError", "listing unreachable")
                               [] kind = "badjson" ->
                                    Outcome("load", "JSONDecodeError", "listing malformed")
                               [] OTHER ->
                                    Outcome("load", "KeyError", "listing malformed")
                        /\ loadReqs' = Count(NoRequests, <<ListingRequest(Limit)>>)
                        /\ UNCHANGED <<loadCache, df_pokemon, results, loadIdx>>

\* One turn of the loop of lines 65-76: the fetch of the next listed entry and
\* the row built from it. An exception of the fetch, or of data['types'][0],
\* leaves the function, and nothing is stored for the load.
LoadEntry ==
    /\ pc = "loading"
    /\ loadIdx <= Len(results)
    /\ LET identifier == StrId(results[loadIdx].name)
       IN \E ans \in Asked(entityCache, identifier, ServiceAnswers(PathOf(identifier))) :
          \E r \in {CachedFetch(entityCache, identifier, ans)} :
            LET data == r.call.result
            IN /\ entityCache' = r.cache
               /\ history' = Remember(history, identifier, r.call)
               /\ calls' = <<Observe(identifier, ans, r.call)>>
               /\ loadReqs' = Count(loadReqs, r.call.reqs)
               /\ IF r.call.raised # "none"
                  THEN /\ pc' = "failed"
                       /\ outcome' = Outcome("load", r.call.raised, "entry failed")
                       /\ loadIdx' = 0 /\ rows' = << >> /\ results' = << >>
                  ELSE IF Truthy(data) /\ Len(data.types) = 0
                  THEN /\ pc' = "failed"
                       /\ outcome' = Outcome("load", "IndexError", "entry failed")
                       /\ loadIdx' = 0 /\ rows' = << >> /\ results' = << >>
                  ELSE /\ rows' = IF Truthy(data) THEN Append(rows, FlatData(data)) ELSE rows
                       /\ loadIdx' = loadIdx + 1
                       /\ outcome' = Outcome("load", "none", "entry done")
                       /\ UNCHANGED <<pc, results>>
    /\ UNCHANGED <<loadCache, session, df_pokemon, loadCold>>

\* Line 77 and the wrapper of line 56: the frame is returned and stored; the
\* locals of the call are gone.
LoadReturn ==
    /\ pc = "loading"
    /\ loadIdx > Len(results)
    /\ loadCache' = Put(loadCache, Limit, DataFrame(rows))
    /\ df_pokemon' = DataFrame(rows)
    /\ pc' = "tab1"
    /\ calls' = <<>>
    /\ outcome' = Outcome("load", "none", "loaded")
    /\ results' = << >> /\ loadIdx' = 0 /\ rows' = << >>
    /\ UNCHANGED <<entityCache, session, loadReqs, loadCold, history>>

----------------------------------------------------------------------------
(* The dashboard script. *)

NoSession == [t |-> "unset", v |-> 0]

\* What the user may type in the search box; the empty string is falsy
\* (line 97) and stands for a run without a search as well.
SearchTerms == {<< >>, Capitalize(Name(1))}

\* Lines 90-121. The search replaces the current id, the fetch decides between
\* the card (which stores the fetched id, an int) and the st.error message.
Tab1 ==
    /\ pc = "tab1"
    /\ \E search_term \in SearchTerms :
         LET current == IF session = NoSession THEN IntId(1) ELSE session
             identifier == IF search_term # << >> THEN StrId(search_term) ELSE current
         IN \E ans \in Asked(entityCache, identifier, ServiceAnswers(PathOf(identifier))) :
            \E r \in {CachedFetch(entityCache, identifier, ans)} :
              LET pokemon == r.call.result
              IN /\ entityCache' = r.cache
                 /\ history' = Remember(history, identifier, r.call)
                 /\ calls' = <<Observe(identifier, ans, r.call)>>
                 /\ IF r.call.raised # "none"
                    THEN /\ session' = identifier
                         /\ pc' = "failed"
                         /\ outcome' = Outcome("tab1", r.call.raised, "exception")
                    ELSE IF Truthy(pokemon)
                    THEN /\ session' = IntId(pokemon.id)
                         /\ pc' = "tab2"
                         /\ outcome' = Outcome("tab1", "none", "card")
                    ELSE /\ session' = identifier
                         /\ pc' = "tab2"
                         /\ outcome' = Outcome("tab1", "none", "not found")
    /\ loadReqs' = NoRequests /\ loadCold' = FALSE
    /\ UNCHANGED <<loadCache, df_pokemon, results, loadIdx, rows>>

\* index=6 of the second selectbox, line 132
SecondIndex == 6

\* df_pokemon['Nombre'].tolist()
Column(df, name) == [i \in 1..Len(df.rows) |-> df.rows[i][name]]

\* st.selectbox(label, options, index): the positions the widget can return;
\* an index outside a non-empty list of options is refused with an exception,
\* and an empty list of options returns None (position 0).
SelectboxRaises(options, index) == Len(options) > 0 /\ index >= Len(options)

\* Lines 124-151. The first box may hold any option, the second is left at
\* its default.
Tab2 ==
    /\ pc = "tab2"
    /\ IF "Nombre" \notin df_pokemon.columns
       THEN /\ pc' = "failed"
            /\ outcome' = Outcome("tab2", "KeyError", "exception")
            /\ calls' = <<>>
            /\ UNCHANGED <<entityCache, history>>
       ELSE LET pokemon_list == Column(df_pokemon, "Nombre")
            IN IF SelectboxRaises(pokemon_list, 0) \/ SelectboxRaises(pokemon_list, SecondIndex)
               THEN /\ pc' = "failed"
                    /\ outcome' = Outcome("tab2", "StreamlitAPIException", "exception")
                    /\ calls' = <<>>
                    /\ UNCHANGED <<entityCache, history>>
               ELSE \E first \in 1..Len(pokemon_list) :
                      LET id1 == StrId(Lower(pokemon_list[first]))
                          id2 == StrId(Lower(pokemon_list[SecondIndex + 1]))
                      IN \E ans1 \in Asked(entityCache, id1, ServiceAnswers(PathOf(id1))) :
                         \E r1 \in {CachedFetch(entityCache, id1, ans1)} :
                         \E ans2 \in Asked(r1.cache, id2, ServiceAnswers(PathOf(id2))) :
                         \E r2 \in {CachedFetch(r1.cache, id2, ans2)} :
                              IF r1.call.raised # "none"
                              THEN /\ entityCache' = r1.cache
                                   /\ history' = history
                                   /\ calls' = <<Observe(id1, ans1, r1.call)>>
                                   /\ pc' = "failed"
                                   /\ outcome' = Outcome("tab2", r1.call.raised, "exception")
                              ELSE /\ entityCache' = r2.cache
                                   /\ history' = Remember(Remember(history, id1, r1.call), id2, r2.call)
                                   /\ calls' = <<Observe(id1, ans1, r1.call), Observe(id2, ans2, r2.call)>>
                                   /\ IF r2.call.raised # "none"
                                      THEN /\ pc' = "failed"
                                           /\ outcome' = Outcome("tab2", r2.call.raised, "exception")
                                      ELSE /\ pc' = "tab3"
                                           /\ outcome' = Outcome("tab2", "none",
                                                  IF Truthy(r1.call.result) /\ Truthy(r2.call.result)
                                                  THEN "chart" ELSE "no chart")
    /\ UNCHANGED <<loadCache, session, df_pokemon, results, loadIdx, rows, loadReqs, loadCold>>

\* Lines 154-180: the three charts read the columns of df_pokemon.
Tab3 ==
    /\ pc = "tab3"
    /\ IF {"Tipo Primario", "Ataque", "Defensa", "Nombre"} \subseteq df_pokemon.columns
       THEN /\ pc' = "done"
            /\ outcome' = Outcome("tab3", "none", "charts")
       ELSE /\ pc' = "failed"
            /\ outcome' = Outcome("tab3", "KeyError", "exception")
    /\ calls' = <<>>
    /\ UNCHANGED <<entityCache, loadCache, session, df_pokemon, results, loadIdx,
                   rows, loadReqs, loadCold, history>>

\* Streamlit runs the script again on the next interaction; the caches and
\* the session state outlive the run.
Rerun ==
    /\ pc \in {"done", "failed"}
    /\ pc' = "load"
    /\ calls' = <<>>
    /\ outcome' = Outcome("start", "none", "rerun")
    /\ loadReqs' = NoRequests /\ loadCold' = FALSE
    /\ UNCHANGED <<entityCache, loadCache, session, df_pokemon, results, loadIdx,
                   rows, history>>

Init ==
    /\ entityCache = EmptyCache
    /\ loadCache = [k \in {} |-> NoFrame]
    /\ session = NoSession
    /\ pc = "load"
    /\ df_pokemon = NoFrame
    /\ results = << >>
    /\ loadIdx = 0
    /\ rows = << >>
    /\ loadReqs = NoRequests
    /\ loadCold = FALSE
    /\ calls = << >>
    /\ outcome = Outcome("start", "none", "start")
    /\ history = EmptyCache

Next == LoadCall \/ LoadEntry \/ LoadReturn \/ Tab1 \/ Tab2 \/ Tab3 \/ Rerun

Spec == Init /\ [][Next]_vars

----------------------------------------------------------------------------
(* fetch_pokemon_data on its own: any caller, any identifier, any answer. *)

Identifiers ==
    {IntId(1), StrId(<<"1">>), StrId(Capitalize(Name(1))), StrId(<<"z", "z">>)}

FetchCall ==
    \E identifier \in Identifiers :
      \E ans \in Asked(entityCache, identifier, AnyAnswers(PathOf(identifier))) :
        \E r \in {CachedFetch(entityCache, identifier, ans)} :
           /\ entityCache' = r.cache
           /\ history' = Remember(history, identifier, r.call)
           /\ calls' = <<Observe(identifier, ans, r.call)>>
           /\ outcome' = Outcome("fetch", r.call.raised, "call")
           /\ UNCHANGED <<loadCache, session, pc, df_pokemon, results, loadIdx,
                          rows, loadReqs, loadCold>>

FetchNext == FetchCall

FetchSpec == Init /\ [][FetchNext]_vars

----------------------------------------------------------------------------
(* Properties. *)

Calls == {calls[i] : i \in 1..Len(calls)}

\* The calls of the last step that reached the service with both requests
\* and came back with a record.
Fetched == {c \in Calls : c.raised = "none" /\ c.result # None /\ Len(c.reqs) = 2}

EntityOf(c) == Resolve(PathOf(c.identifier))

\* C1: every call of fetch_pokemon_data returns a complete record or None and
\* raises nothing, whatever the service answers, a missing JSON field included.
C1_FetchNeverRaises ==
    \A c \in Calls :
        /\ c.raised = "none"
        /\ \/ c.result = None
           \/ DOMAIN c.result = {"tag", "id", "name", "image", "types", "stats",
                                 "height", "weight", "description"}

\* C2: a call with an identifier for which fetch_pokemon_data has returned
\* before issues no request and returns what the first call returned.
C2_RepeatedCallServedFromCache ==
    \A c \in Calls :
        c.prior # NoCall =>
            /\ c.reqs = << >>
            /\ c.raised = "none"
            /\ c.result = c.prior

\* C2 witness: a repeated call after a first call that returned None.
C2_Witness == \E c \in Calls : c.prior = None /\ c.result = None /\ c.reqs = << >>

\* C3 as claimed: a call whose identifier has the lower-cased string form of
\* an earlier call's identifier issues no request and returns that call's
\* result.
C3_Original ==
    \A c \in Calls : \A k \in c.samePath :
        /\ c.reqs = << >>
        /\ c.result = history[k]

\* C3 amended: the cache is keyed by the identifier as passed (type and
\* value). A call issues no request exactly when that same identifier was
\* returned for before; any other call sends its primary request to the
\* lower-cased string form, also when an earlier identifier has that form.
C3_KeyedByArgument ==
    \A c \in Calls :
        /\ c.prior # NoCall => c.reqs = << >>
        /\ c.prior = NoCall =>
              /\ Len(c.reqs) >= 1
              /\ c.reqs[1] = [req |-> "pokemon", path |-> Lower(Str(c.identifier))]

\* C3 witness: a first call with an identifier whose lower-cased string form
\* an earlier, different identifier already had.
C3_Witness ==
    \E c \in Calls : c.prior = NoCall /\ c.samePath # {} /\ Len(c.reqs) >= 1

\* C6 as claimed: a returned record has one or two types and all six
\* canonical stats, a stat missing from the payload being 0.
C6_Original ==
    \A c \in Calls :
        (c.raised = "none" /\ c.result # None) =>
            /\ Len(c.result.types) \in {1, 2}
            /\ StatKeys \subseteq DOMAIN c.result.stats

\* C6 amended: a returned record carries the payload's type names in payload
\* order, as many as the payload has, and exactly the payload's stats: a stat
\* missing from the payload is missing from the record.
C6_RecordMirrorsPayload ==
    \A c \in Fetched :
        LET data == Payload(EntityOf(c), c.ans.shape)
        IN /\ Len(c.result.types) = Len(data.types)
           /\ \A i \in 1..Len(data.types) : c.result.types[i] = data.types[i].type.name
           /\ DOMAIN c.result.stats = {data.stats[i].stat.name : i \in 1..Len(data.stats)}
           /\ \A i \in 1..Len(data.stats) :
                 c.result.stats[data.stats[i].stat.name] = data.stats[i].base_stat

\* C6 witness: a record built from a payload without the "speed" stat.
C6_Witness ==
    \E c \in Fetched : c.ans.shape = "short stats" /\ "speed" \notin DOMAIN c.result.stats

\* C7: the description is the flavor text of the first entry of the target
\* locale with every "\n" and "\f" replaced by a blank, and the fallback
\* string, which is not empty, when no entry has that locale.
C7_DescriptionSelected ==
    \A c \in Fetched :
        LET entries == SpeciesPayload(EntityOf(c), c.ans.species_shape).flavor_text_entries
            matches == {i \in 1..Len(entries) : entries[i].language.name = "es"}
            d == c.result.description
        IN IF matches = {}
           THEN d = Fallback /\ Len(d) > 0
           ELSE LET m == CHOOSE i \in matches : \A j \in matches : i <= j
                    text == entries[m].flavor_text
                IN /\ Len(d) = Len(text)
                   /\ \A j \in 1..Len(text) :
                         d[j] = IF text[j] \in {"\n", "\f"} THEN " " ELSE text[j]

\* C7 witness: a description taken from a text with a line break and a form
\* feed, the first of two entries of the target locale.
C7_Witness ==
    \E c \in Fetched :
        /\ c.ans.species_shape = "full"
        /\ c.result.description = <<"h", " ", "o", " ", "l", "\r", "a">>

Total(reqs) == reqs.list + reqs.pokemon + reqs.species

\* The load call has just returned a frame built from an answered listing.
Loaded == outcome.at = "load" /\ outcome.shown = "loaded"

\* C4: a listing request that is refused (a non-success status) or that fails
\* in transport makes the load return the empty frame: nothing is raised and
\* no entry is fetched.
C4_ListingFailureGivesEmptyFrame ==
    (outcome.at = "load" /\ outcome.shown \in {"listing refused", "listing unreachable"}) =>
        /\ outcome.raised = "none"
        /\ pc = "tab1"
        /\ df_pokemon.rows = << >>
        /\ loadReqs.pokemon = 0

\* C5: no failure of an entry makes the load fail, and the returned frame has
\* one row, in listing order, for each listed entry whose fetch returned a
\* record, and none for the others.
C5_LoadSurvivesEntryFailures ==
    outcome.at = "load" =>
        /\ outcome.shown # "entry failed"
        /\ outcome.shown = "loaded" =>
              LET fetched == SelectSeq(Listing(Limit),
                                       LAMBDA x : history[StrId(x.name)] # None)
              IN /\ Len(df_pokemon.rows) = Len(fetched)
                 /\ Len(df_pokemon.rows) <= Limit
                 /\ \A i \in 1..Len(fetched) :
                       df_pokemon.rows[i]["ID"] = history[StrId(fetched[i].name)].id

\* C8 as claimed: a load on cold caches that yields N rows issues N + 1
\* requests.
C8_Original ==
    (Loaded /\ loadCold) => Total(loadReqs) = Len(df_pokemon.rows) + 1

\* C8 amended: a load on cold caches whose listing is answered with k
\* entries and that yields N rows issues the listing request, one primary
\* request for each listed entry and one species request for each entry whose
\* primary request succeeded: 1 + k + s requests with N <= s <= k, so at
\* least 2N + 1.
C8_RequestsOfColdLoad ==
    (Loaded /\ loadCold) =>
        /\ loadReqs.list = 1
        /\ loadReqs.pokemon = Len(Listing(Limit))
        /\ loadReqs.species >= Len(df_pokemon.rows)
        /\ loadReqs.species <= Len(Listing(Limit))
        /\ Total(loadReqs) >= 2 * Len(df_pokemon.rows) + 1

\* C8 witness: a cold load that returned rows and lost an entry after its
\* primary request had succeeded.
C8_Witness ==
    /\ Loaded /\ loadCold
    /\ Len(df_pokemon.rows) > 0
    /\ loadReqs.species > Len(df_pokemon.rows)

\* C9: a run of the script raises nothing when the lookup returns None (it
\* shows the not-found message) and nothing in the comparison and aggregate
\* views when the frame has no rows.
C9_RunSurvivesAbsentAndEmpty ==
    /\ (outcome.at = "tab1" /\ \E c \in Calls : c.raised = "none" /\ c.result = None) =>
          (pc # "failed" /\ outcome.shown = "not found")
    /\ (outcome.at \in {"tab2", "tab3"} /\ Len(df_pokemon.rows) = 0) =>
          (pc # "failed" /\ outcome.raised = "none")

\* C10: the comparator's fetches, made with the lower-cased Nombre of rows of
\* the loaded frame, issue no request and return the record the row was
\* built from during the load, never None.
C10_ComparatorServedFromCache ==
    outcome.at = "tab2" =>
        \A c \in Calls :
            /\ c.reqs = << >>
            /\ c.raised = "none"
            /\ c.result # None
            /\ c.result = c.prior
            /\ \E i \in 1..Len(df_pokemon.rows) :
                  /\ Lower(df_pokemon.rows[i]["Nombre"]) = c.identifier.v
                  /\ df_pokemon.rows[i]["Nombre"] = c.result.name
                  /\ df_pokemon.rows[i]["ID"] = c.result.id
                  /\ df_pokemon.rows[i]["Tipo Primario"] = c.result.types[1]

\* C10 witness: the comparator drew its chart from two fetched records.
C10_Witness ==
    outcome.at = "tab2" /\ outcome.shown = "chart" /\ Len(calls) = 2

====
